---- MODULE Spec2Model ----
(***************************************************************************)
(* Filter functors of zypp::resfilter (zypp/ResFilters.h) over the         *)
(* Resolvable identity accessors (zypp/Resolvable.cc), together with the   *)
(* collaborators the functors are used with: the comparison functors, the  *)
(* status object of a PoolItem, Capability::matches, chain() and forEach().*)
(***************************************************************************)
EXTENDS Integers, Sequences, FiniteSets, TLC

(***************************************************************************)
(* Bounds of the model.                                                    *)
(***************************************************************************)
\* editions are 1..MaxEdition, ordered as the integers are
MaxEdition == 3
\* longest collection handed to forEach
MaxLen == 3
\* evaluations of a status filter that are kept in the history
MaxEvals == 2
\* invocations of a chain() functor
MaxCalls == 2

(***************************************************************************)
(* Value domains.                                                          *)
(***************************************************************************)
Kinds == {"package", "pattern", "srcpackage"}
Names == {"kernel", "Kernel"}
Editions == 1 .. MaxEdition
Caps == {"c1", "c2"}
CapMatchValues == {"yes", "no", "maybe"}
CompareTypes == {"CompareByEQ", "CompareByNE", "CompareByLT",
                 "CompareByLE", "CompareByGT", "CompareByGE"}
StateValues == {"installed", "uninstalled", "unknown"}

ResObjects == [kind : Kinds, name : Names, edition : Editions]
ResStatuses == [state : StateValues, transact : BOOLEAN, lock : BOOLEAN]
PoolItems == [res : ResObjects, status : ResStatuses]

VARIABLES
  \* ---- one ResObject filter applied to one ResObject
  res,          \* the ResObject handed to the filter
  filter,       \* the functor object (its type and its data members)
  out,          \* [valid, result]: what the last operator() call returned
  \* ---- PoolItem / CapAndItem filters on a pool entry
  entry,        \* the PoolItem: [res, status]
  matchTable,   \* Capability::matches, a fixed three-valued relation
  pfilter,      \* the functor object
  last,         \* [op, cap, result]: the last operation and what it returned
  evals,        \* history of status filter evaluations: <<[seen, result]>>
  \* ---- forEach( filter, action )
  coll,         \* the collection, a sequence of PoolItems
  falseOn,      \* positions on which the action functor returns false
  idx,          \* position of the iterator
  fpc,          \* "loop" | "stopped" | "end"
  filterCalls,  \* positions the filter was evaluated on, in order
  actionCalls,  \* positions the action was evaluated on, in order
  \* ---- chain( P, Q )
  crec,         \* the ResObject handed to the chain
  condA,        \* first functor
  condB,        \* second functor
  cpc,          \* "idle" | "condA" | "condB" | "done"
  ccalls,       \* which of "A", "B" were evaluated in the current call
  counter,      \* the counter PrintAndCount increments
  cresult,      \* what the chain returned
  nCalls        \* chain invocations so far

attrVars == <<res, filter, out>>
poolVars == <<entry, matchTable, pfilter, last, evals>>
feVars == <<coll, falseOn, idx, fpc, filterCalls, actionCalls>>
chVars == <<crec, condA, condB, cpc, ccalls, counter, cresult, nCalls>>
vars == <<attrVars, poolVars, feVars, chVars>>

(***************************************************************************)
(* Resolvable: identity accessors forwarded to the implementation object.  *)
(***************************************************************************)
Resolvable_kind(p) == p.kind
Resolvable_name(p) == p.name
Resolvable_edition(p) == p.edition

(***************************************************************************)
(* Comparison functors (zypp/RelCompare.h): each is stateless and applies  *)
(* its relation to ( lhs, rhs ) in that order.                             *)
(***************************************************************************)
Compare(cmp, lhs, rhs) ==
  CASE cmp = "CompareByEQ" -> lhs = rhs
    [] cmp = "CompareByNE" -> lhs # rhs
    [] cmp = "CompareByLT" -> lhs < rhs
    [] cmp = "CompareByLE" -> lhs <= rhs
    [] cmp = "CompareByGT" -> lhs > rhs
    [] cmp = "CompareByGE" -> lhs >= rhs

(***************************************************************************)
(* ResObject filters: constructors store the data members, operator()      *)
(* compares the ResObject's attribute with the stored one.                 *)
(***************************************************************************)
ByKind(kind_r) == [type |-> "ByKind", _kind |-> kind_r]

ByKind_call_wrongAttr(f, p) == Resolvable_name(p) = f._kind

ByKind_call(f, p) == Resolvable_kind(p) = f._kind

ByName(name_r) == [type |-> "ByName", _name |-> name_r]

ByName_call(f, p) == Resolvable_name(p) = f._name

\* template<class _Compare = CompareByEQ<Edition> > struct ByEdition
ByEdition_DefaultCompare_NE == "CompareByNE"

ByEdition_DefaultCompare == "CompareByEQ"

\* tmpl records whether the _Compare template argument was spelled out
ByEdition(tmpl, edition_r, cmp_r) ==
  [type |-> "ByEdition", tmpl |-> tmpl, _edition |-> edition_r, _cmp |-> cmp_r]

ByEdition_call_swapped(f, p) == Compare(f._cmp, f._edition, Resolvable_edition(p))

ByEdition_call(f, p) == Compare(f._cmp, Resolvable_edition(p), f._edition)

\* byEdition( edition_r, cmp_r ): _Compare is deduced from cmp_r
byEdition2(edition_r, cmp_r) == ByEdition("explicit", edition_r, cmp_r)

\* byEdition<_Compare>( edition_r ): the comparator is default constructed
byEdition1(Cmp, edition_r) == byEdition2(edition_r, Cmp)

\* ByEdition<>( edition_r, cmp ): _Compare left to the template's default
ByEditionDefault(edition_r) ==
  ByEdition("default", edition_r, ByEdition_DefaultCompare)

ResFilters ==
  {ByKind(k) : k \in Kinds} \cup {ByName(n) : n \in Names}
    \cup {byEdition2(e, c) : e \in Editions, c \in CompareTypes}
    \cup {byEdition1(c, e) : c \in CompareTypes, e \in Editions}
    \cup {ByEditionDefault(e) : e \in Editions}

\* operator()( ResObject::constPtr p ) of the functor object f
ResFilter_call(f, p) ==
  CASE f.type = "ByKind" -> ByKind_call(f, p)
    [] f.type = "ByName" -> ByName_call(f, p)
    [] f.type = "ByEdition" -> ByEdition_call(f, p)

NoOut == [valid |-> FALSE, result |-> FALSE]

(***************************************************************************)
(* Applying one ResObject filter to one ResObject.                         *)
(***************************************************************************)
AttrIdle ==
  /\ res = [kind |-> "package", name |-> "kernel", edition |-> 1]
  /\ filter = ByKind("package")
  /\ out = NoOut

AttrInit ==
  /\ res \in ResObjects
  /\ filter \in ResFilters
  /\ out = NoOut

\* a caller constructs another functor
Construct(f) ==
  /\ filter' = f
  /\ out' = NoOut
  /\ UNCHANGED <<res, poolVars, feVars, chVars>>

\* a caller invokes filter( res )
Apply ==
  /\ out' = [valid |-> TRUE, result |-> ResFilter_call(filter, res)]
  /\ UNCHANGED <<res, filter, poolVars, feVars, chVars>>

(***************************************************************************)
(* ResStatus: the status object of a PoolItem.  The state field holds one  *)
(* value; transact and lock are independent flags.                         *)
(***************************************************************************)
isInstalled(s) == s.state = "installed"
isUninstalled(s) == s.state = "uninstalled"
transacts(s) == s.transact
isLocked(s) == s.lock

\* PoolItem::status() and PoolItem::operator->()
PoolItem_status(p) == p.status
PoolItem_resolvable(p) == p.res

\* CapAndItem: the pair a capability index lookup yields
CapAndItem(c, p) == [cap |-> c, item |-> p]

\* Capability::matches( rhs ): a three-valued answer, fixed per pair
Capability_matches(lhs, rhs) == matchTable[<<lhs, rhs>>]

(***************************************************************************)
(* PoolItem filters.  The functors have no data members.                   *)
(***************************************************************************)
ByInstalled == [type |-> "ByInstalled"]
ByUninstalled == [type |-> "ByUninstalled"]
ByTransact == [type |-> "ByTransact"]
ByLock == [type |-> "ByLock"]

StatusFilters == {ByInstalled, ByUninstalled, ByTransact, ByLock}

\* a functor that keeps the answer of its first evaluation
ByInstalled_call_cached(p) ==
  IF evals # <<>> THEN evals[1].result ELSE isInstalled(PoolItem_status(p))

\* a functor that takes every entry not known to be uninstalled
ByInstalled_call_notUninstalled(p) == ~isUninstalled(PoolItem_status(p))

ByInstalled_call(p) == isInstalled(PoolItem_status(p))

ByUninstalled_call_asInstalled(p) == isInstalled(PoolItem_status(p))

ByUninstalled_call(p) == isUninstalled(PoolItem_status(p))

ByTransact_call(p) == transacts(PoolItem_status(p))

ByLock_call(p) == isLocked(PoolItem_status(p))

\* operator()( const PoolItem & p ) of the functor object f
PoolItemFilter_call(f, p) ==
  CASE f.type = "ByInstalled" -> ByInstalled_call(p)
    [] f.type = "ByUninstalled" -> ByUninstalled_call(p)
    [] f.type = "ByTransact" -> ByTransact_call(p)
    [] f.type = "ByLock" -> ByLock_call(p)

(***************************************************************************)
(* CapAndItem filters.                                                     *)
(***************************************************************************)
ByCapabilityIndex == [type |-> "ByCapabilityIndex"]
ByCapMatch(cap_r) == [type |-> "ByCapMatch", _cap |-> cap_r]
ByCaIUninstalled == [type |-> "ByCaIUninstalled"]
ByCaIInstalled == [type |-> "ByCaIInstalled"]
ByCaITransact == [type |-> "ByCaITransact"]
ByCaINotTransact == [type |-> "ByCaINotTransact"]
ByCaIKind(kind_r) == [type |-> "ByCaIKind", _kind |-> kind_r]

CaIFilters ==
  {ByCapabilityIndex, ByCaIUninstalled, ByCaIInstalled, ByCaITransact,
   ByCaINotTransact}
    \cup {ByCapMatch(c) : c \in Caps} \cup {ByCaIKind(k) : k \in Kinds}

ByCapabilityIndex_call(cai) == TRUE

ByCapMatch_call_notNo(f, cai) == Capability_matches(cai.cap, f._cap) # "no"

ByCapMatch_call(f, cai) == Capability_matches(cai.cap, f._cap) = "yes"

ByCaIUninstalled_call(cai) == isUninstalled(PoolItem_status(cai.item))

ByCaIInstalled_call(cai) == isInstalled(PoolItem_status(cai.item))

ByCaITransact_call(cai) == transacts(PoolItem_status(cai.item))

ByCaINotTransact_call(cai) == ~transacts(PoolItem_status(cai.item))

ByCaIKind_call(f, cai) == Resolvable_kind(PoolItem_resolvable(cai.item)) = f._kind

\* operator()( const CapAndItem & cai ) of the functor object f
CaIFilter_call(f, cai) ==
  CASE f.type = "ByCapabilityIndex" -> ByCapabilityIndex_call(cai)
    [] f.type = "ByCapMatch" -> ByCapMatch_call(f, cai)
    [] f.type = "ByCaIUninstalled" -> ByCaIUninstalled_call(cai)
    [] f.type = "ByCaIInstalled" -> ByCaIInstalled_call(cai)
    [] f.type = "ByCaITransact" -> ByCaITransact_call(cai)
    [] f.type = "ByCaINotTransact" -> ByCaINotTransact_call(cai)
    [] f.type = "ByCaIKind" -> ByCaIKind_call(f, cai)

\* the functor applied to the pool entry, paired with capability c where
\* the functor takes a CapAndItem
PoolFilter_call(f, c, p) ==
  IF f \in StatusFilters
    THEN PoolItemFilter_call(f, p)
    ELSE CaIFilter_call(f, CapAndItem(c, p))

(***************************************************************************)
(* A pool entry whose status its owner changes, and filters evaluated on   *)
(* it.                                                                     *)
(***************************************************************************)
NoLast == [op |-> "init", cap |-> "c1", result |-> FALSE]

PoolIdle ==
  /\ entry = [res |-> [kind |-> "package", name |-> "kernel", edition |-> 1],
              status |-> [state |-> "unknown", transact |-> FALSE, lock |-> FALSE]]
  /\ matchTable = [x \in Caps \X Caps |-> "no"]
  /\ pfilter = ByInstalled
  /\ last = NoLast
  /\ evals = <<>>

PoolInit ==
  /\ entry \in {p \in PoolItems : p.res.name = "kernel" /\ p.res.edition = 1}
  /\ matchTable \in [Caps \X Caps -> CapMatchValues]
  /\ pfilter \in StatusFilters \cup CaIFilters
  /\ last = NoLast
  /\ evals = <<>>

\* a caller constructs another functor
PConstruct(f) ==
  /\ pfilter' = f
  /\ last' = [op |-> "construct", cap |-> "c1", result |-> FALSE]
  /\ UNCHANGED <<entry, matchTable, evals, attrVars, feVars, chVars>>

\* the owner of the pool changes the entry's status
SetStatus(s) ==
  /\ entry' = [entry EXCEPT !.status = s]
  /\ last' = [op |-> "status", cap |-> "c1", result |-> FALSE]
  /\ UNCHANGED <<matchTable, pfilter, evals, attrVars, feVars, chVars>>

\* an operator() call that also marks the entry it was asked about
PEval_marking(c) ==
  /\ last' = [op |-> "eval", cap |-> c, result |-> PoolFilter_call(pfilter, c, entry)]
  /\ entry' = [entry EXCEPT !.status.transact = TRUE]
  /\ UNCHANGED <<matchTable, pfilter, evals, attrVars, feVars, chVars>>

\* a caller invokes pfilter( entry ) or pfilter( CapAndItem( c, entry ) ):
\* operator() is const, takes its argument by const reference and only
\* calls accessors
PEval(c) ==
  /\ last' = [op |-> "eval", cap |-> c, result |-> PoolFilter_call(pfilter, c, entry)]
  /\ UNCHANGED <<entry, matchTable, pfilter, evals, attrVars, feVars, chVars>>

(***************************************************************************)
(* One status filter object evaluated again and again while the owner      *)
(* changes the status in between.                                          *)
(***************************************************************************)
StatusInit ==
  /\ entry \in {p \in PoolItems : p.res = [kind |-> "package", name |-> "kernel", edition |-> 1]}
  /\ matchTable = [x \in Caps \X Caps |-> "no"]
  /\ pfilter \in StatusFilters
  /\ last = NoLast
  /\ evals = <<>>

StatusChange(s) ==
  /\ entry' = [entry EXCEPT !.status = s]
  /\ UNCHANGED <<matchTable, pfilter, last, evals, attrVars, feVars, chVars>>

StatusEval ==
  /\ Len(evals) < MaxEvals
  /\ evals' = Append(evals, [seen |-> PoolItem_status(entry),
                             result |-> PoolItemFilter_call(pfilter, entry)])
  /\ UNCHANGED <<entry, matchTable, pfilter, last, attrVars, feVars, chVars>>

(***************************************************************************)
(* forEach( filter, action ): for each element in iteration order the      *)
(* filter is evaluated; on a match the action is evaluated, and a false    *)
(* return of the action ends the traversal.                                *)
(***************************************************************************)
\* the action functor of the traversal: a collector that appends the match
\* and asks to go on everywhere but on the positions in falseOn
Collect_call(i) == i \notin falseOn

FeIdle ==
  /\ coll = <<>>
  /\ falseOn = {}
  /\ idx = 1
  /\ fpc = "end"
  /\ filterCalls = <<>>
  /\ actionCalls = <<>>

FeItems ==
  {p \in PoolItems :
     /\ p.res = [kind |-> "package", name |-> "kernel", edition |-> 1]
     /\ ~p.status.transact /\ ~p.status.lock}

FeInit ==
  /\ coll \in UNION {[1 .. n -> FeItems] : n \in 0 .. MaxLen}
  /\ falseOn \in SUBSET (1 .. MaxLen)
  /\ idx = 1
  /\ fpc = "loop"
  /\ filterCalls = <<>>
  /\ actionCalls = <<>>

\* a traversal that ignores what the action returns
ForEachStep_ignoreReturn ==
  /\ fpc = "loop"
  /\ idx <= Len(coll)
  /\ filterCalls' = Append(filterCalls, idx)
  /\ actionCalls' = IF PoolItemFilter_call(pfilter, coll[idx])
                      THEN Append(actionCalls, idx) ELSE actionCalls
  /\ idx' = idx + 1
  /\ UNCHANGED <<coll, falseOn, fpc, attrVars, poolVars, chVars>>

\* one iteration of the loop
ForEachStep ==
  /\ fpc = "loop"
  /\ idx <= Len(coll)
  /\ filterCalls' = Append(filterCalls, idx)
  /\ IF PoolItemFilter_call(pfilter, coll[idx])
       THEN /\ actionCalls' = Append(actionCalls, idx)
            /\ IF Collect_call(idx)
                 THEN idx' = idx + 1 /\ fpc' = fpc
                 ELSE idx' = idx /\ fpc' = "stopped"
       ELSE /\ actionCalls' = actionCalls
            /\ idx' = idx + 1
            /\ fpc' = fpc
  /\ UNCHANGED <<coll, falseOn, attrVars, poolVars, chVars>>

\* the iterator reached the end
ForEachEnd ==
  /\ fpc = "loop"
  /\ idx > Len(coll)
  /\ fpc' = "end"
  /\ UNCHANGED <<coll, falseOn, idx, filterCalls, actionCalls, attrVars, poolVars, chVars>>

(***************************************************************************)
(* chain( condA, condB ): operator() returns condA( t ) && condB( t ).     *)
(***************************************************************************)
\* the action functor of the usage documentation: counts and returns true
PrintAndCount == [type |-> "PrintAndCount"]

ChainFirst == {ByKind(k) : k \in Kinds}
ChainSecond == {ByName(n) : n \in Names} \cup {PrintAndCount}

ChIdle ==
  /\ crec = [kind |-> "package", name |-> "kernel", edition |-> 1]
  /\ condA = ByKind("package")
  /\ condB = PrintAndCount
  /\ cpc = "idle"
  /\ ccalls = <<>>
  /\ counter = 0
  /\ cresult = FALSE
  /\ nCalls = 0

ChInit ==
  /\ crec = [kind |-> "package", name |-> "kernel", edition |-> 1]
  /\ condA \in ChainFirst
  /\ condB \in ChainSecond
  /\ cpc = "idle"
  /\ ccalls = <<>>
  /\ counter = 0
  /\ cresult = FALSE
  /\ nCalls = 0

\* a caller invokes chain( condA, condB )( r )
ChainCall(r) ==
  /\ cpc \in {"idle", "done"}
  /\ nCalls < MaxCalls
  /\ crec' = r
  /\ cpc' = "condA"
  /\ ccalls' = <<>>
  /\ nCalls' = nCalls + 1
  /\ UNCHANGED <<condA, condB, counter, cresult, attrVars, poolVars, feVars>>

\* both operands are always evaluated
ChainCondA_eager ==
  /\ cpc = "condA"
  /\ ccalls' = Append(ccalls, "A")
  /\ cpc' = "condB"
  /\ UNCHANGED <<crec, condA, condB, counter, cresult, nCalls, attrVars, poolVars, feVars>>

\* the left operand of &&
ChainCondA ==
  /\ cpc = "condA"
  /\ ccalls' = Append(ccalls, "A")
  /\ IF ResFilter_call(condA, crec)
       THEN cpc' = "condB" /\ cresult' = cresult
       ELSE cpc' = "done" /\ cresult' = FALSE
  /\ UNCHANGED <<crec, condA, condB, counter, nCalls, attrVars, poolVars, feVars>>

\* the right operand of &&, reached only when the left one was true
ChainCondB ==
  /\ cpc = "condB"
  /\ ccalls' = Append(ccalls, "B")
  /\ IF condB.type = "PrintAndCount"
       THEN counter' = counter + 1 /\ cresult' = TRUE
       ELSE counter' = counter /\ cresult' = ResFilter_call(condB, crec)
  /\ cpc' = "done"
  /\ UNCHANGED <<crec, condA, condB, nCalls, attrVars, poolVars, feVars>>

(***************************************************************************)
(* Specifications.                                                         *)
(***************************************************************************)
\* ResObject filters
Init == AttrInit /\ PoolIdle /\ FeIdle /\ ChIdle
Next ==
  \/ \E f \in ResFilters : Construct(f)
  \/ Apply
Spec == Init /\ [][Next]_vars

\* PoolItem and CapAndItem filters on a pool entry
SpecPoolInit == AttrIdle /\ PoolInit /\ FeIdle /\ ChIdle
SpecPoolNext ==
  \/ \E f \in StatusFilters \cup CaIFilters : PConstruct(f)
  \/ \E s \in ResStatuses : SetStatus(s)
  \/ \E c \in Caps : PEval(c)
SpecPool == SpecPoolInit /\ [][SpecPoolNext]_vars

\* one status filter, evaluated repeatedly
SpecStatusInit == AttrIdle /\ StatusInit /\ FeIdle /\ ChIdle
SpecStatusNext ==
  \/ \E s \in ResStatuses : StatusChange(s)
  \/ StatusEval
SpecStatus == SpecStatusInit /\ [][SpecStatusNext]_vars

\* forEach with a status filter
FePoolInit ==
  /\ entry = [res |-> [kind |-> "package", name |-> "kernel", edition |-> 1],
              status |-> [state |-> "unknown", transact |-> FALSE, lock |-> FALSE]]
  /\ matchTable = [x \in Caps \X Caps |-> "no"]
  /\ pfilter \in {ByInstalled, ByUninstalled}
  /\ last = NoLast
  /\ evals = <<>>
SpecForEachInit == AttrIdle /\ FePoolInit /\ FeInit /\ ChIdle
SpecForEachNext ==
  \/ ForEachStep
  \/ ForEachEnd
SpecForEach == SpecForEachInit /\ [][SpecForEachNext]_vars

\* chain
SpecChainInit == AttrIdle /\ PoolIdle /\ FeIdle /\ ChInit
SpecChainNext ==
  \/ \E r \in {x \in ResObjects : x.edition = 1} : ChainCall(r)
  \/ ChainCondA
  \/ ChainCondB
SpecChain == SpecChainInit /\ [][SpecChainNext]_vars

(***************************************************************************)
(* Properties.                                                             *)
(***************************************************************************)
\* the status an element of the collection must have to pass pfilter
Passes(p) ==
  IF pfilter = ByInstalled
    THEN p.status.state = "installed"
    ELSE p.status.state = "uninstalled"

\* positions 1..n of the collection that pass pfilter, in order
RECURSIVE Matching(_)
Matching(n) ==
  IF n = 0 THEN <<>>
  ELSE IF Passes(coll[n]) THEN Append(Matching(n - 1), n) ELSE Matching(n - 1)

StatesOf(c) == [i \in 1 .. Len(c) |-> c[i].status.state]

\* C1: once the action returned false on an element, that element is the
\* last one the action was evaluated on, the filter was evaluated on no
\* later element, and the traversal has stopped.
C1_EarlyStop ==
  \A k \in 1 .. Len(actionCalls) :
    actionCalls[k] \in falseOn =>
      /\ k = Len(actionCalls)
      /\ \A j \in 1 .. Len(filterCalls) : filterCalls[j] <= actionCalls[k]
      /\ fpc = "stopped"

C1_Witness ==
  /\ pfilter = ByInstalled
  /\ StatesOf(coll) = <<"installed", "uninstalled", "installed">>
  /\ 1 \in falseOn
  /\ fpc = "stopped"
  /\ filterCalls = <<1>>
  /\ actionCalls = <<1>>

\* C2: when the action returns true on every element, the traversal never
\* stops early, and when it has reached the end the filter was evaluated
\* once on every element and the action exactly once on each element that
\* passes the filter and on no other, in iteration order.
C2_FullTraversal ==
  (falseOn \cap (1 .. Len(coll)) = {}) =>
    /\ fpc # "stopped"
    /\ actionCalls = Matching(idx - 1)
    /\ fpc = "end" =>
         /\ filterCalls = [i \in 1 .. Len(coll) |-> i]
         /\ actionCalls = Matching(Len(coll))

C2_Witness ==
  /\ pfilter = ByInstalled
  /\ StatesOf(coll) = <<"installed", "uninstalled", "installed">>
  /\ falseOn = {}
  /\ fpc = "end"
  /\ actionCalls = <<1, 3>>

\* C3: a finished chain( condA, condB )( r ) returned condA( r ) && condB( r ),
\* evaluated condA first and condB only when condA( r ) was true; the
\* counter of a counting condB changes only for an r that condA accepts.
C3_ChainShortCircuit ==
  [][
    /\ (cpc' = "done" /\ cpc # "done") =>
         LET a == crec'.kind = condA'._kind
             b == IF condB'.type = "PrintAndCount"
                    THEN TRUE ELSE crec'.name = condB'._name
         IN  /\ cresult' = (a /\ b)
             /\ ccalls' = (IF a THEN <<"A", "B">> ELSE <<"A">>)
    /\ (counter' # counter) =>
         /\ crec.kind = condA._kind
         /\ condB.type = "PrintAndCount"
         /\ counter' = counter + 1
  ]_vars

C3_Witness ==
  /\ cpc = "done"
  /\ condB.type = "PrintAndCount"
  /\ crec.kind # condA._kind
  /\ ccalls = <<"A">>
  /\ cresult = FALSE
  /\ nCalls = 2
  /\ counter = 1

\* C4: ByEdition( e, compare )( r ) is compare( r.edition, e ), the
\* ResObject's edition on the left; with greater-than it is true exactly
\* for a ResObject whose edition is above the stored one.
C4_ByEdition ==
  (out.valid /\ filter.type = "ByEdition") =>
    /\ out.result = Compare(filter._cmp, res.edition, filter._edition)
    /\ filter._cmp = "CompareByGT" => (out.result <=> res.edition > filter._edition)

C4_Witness ==
  /\ out.valid
  /\ filter = byEdition2(2, "CompareByGT")
  /\ res.edition = 3
  /\ out.result = TRUE

C6_ByCapMatch ==
  (last.op = "eval" /\ pfilter.type = "ByCapMatch") =>
    (last.result <=> matchTable[<<last.cap, pfilter._cap>>] = "yes")

C6_Witness ==
  /\ last.op = "eval"
  /\ pfilter.type = "ByCapMatch"
  /\ matchTable[<<last.cap, pfilter._cap>>] = "maybe"
  /\ last.result = FALSE

\* C7: ByInstalled and ByUninstalled are never both true of the entry.
C7_NotBoth ==
  ~(PoolItemFilter_call(ByInstalled, entry) /\ PoolItemFilter_call(ByUninstalled, entry))

C7_Witness ==
  /\ last.op = "status"
  /\ entry.status.state = "installed"
  /\ PoolItemFilter_call(ByInstalled, entry)
  /\ ~PoolItemFilter_call(ByUninstalled, entry)

\* C8: an evaluation of a status or capability-pair filter leaves the entry
\* (its status and its ResObject) and the functor's data members as they
\* were, and evaluating again on the same argument returns the same.
C8_EvalFrame ==
  [][last'.op = "eval" =>
       /\ entry' = entry
       /\ pfilter' = pfilter
       /\ matchTable' = matchTable
       /\ (last.op = "eval" /\ last.cap = last'.cap) => last'.result = last.result]_vars

C8_Witness ==
  /\ last.op = "eval"
  /\ pfilter = ByCaINotTransact
  /\ last.result = TRUE
  /\ ~entry.status.transact

\* C9: ByKind( k )( r ) is true iff r.kind = k; ByKind( r.kind )( r ) is true.
C9_ByKind ==
  /\ ResFilter_call(ByKind(res.kind), res)
  /\ (out.valid /\ filter.type = "ByKind") => (out.result <=> res.kind = filter._kind)

C9_Witness ==
  /\ out.valid
  /\ filter = ByKind("pattern")
  /\ res.kind = "package"
  /\ out.result = FALSE

\* C10: every evaluation of a status filter returned the flag the entry's
\* status had at the moment of that evaluation.
FlagOf(f, s) ==
  CASE f.type = "ByInstalled" -> s.state = "installed"
    [] f.type = "ByUninstalled" -> s.state = "uninstalled"
    [] f.type = "ByTransact" -> s.transact
    [] f.type = "ByLock" -> s.lock

C10_NoCachedStatus ==
  \A i \in 1 .. Len(evals) : evals[i].result = FlagOf(pfilter, evals[i].seen)

C10_Witness ==
  /\ Len(evals) = 2
  /\ pfilter = ByInstalled
  /\ evals[1].result = TRUE
  /\ evals[2].result = FALSE

====
